---- MODULE Spec2Model ----
(***************************************************************************)
(* Model of the antenna crash collector: the breakpad submission handler   *)
(* (src/antenna/breakpad_resource.py), its crashmover queue and pool, and  *)
(* the synchronous handler of src/antenna/app.py.                          *)
(***************************************************************************)
EXTENDS Integers, Sequences, FiniteSets, TLC

(***************************************************************************)
(* Bounds of the model and constants of the program.                       *)
(***************************************************************************)

\* Number of crash reports the handler accepts in one behaviour.
MaxCrashes == 2

\* In SpecPost, the number of times in a row a backend raises for one report.
MaxRaises == 1

\* The size of the pool: the concurrent_crashmovers option, any positive
\* integer, here its default (breakpad_resource.py:113).
concurrent_crashmovers == 2

\* breakpad_resource.py:41
MAX_ATTEMPTS == 20

\* breakpad_resource.py:44-45
STATE_SAVE == "save"
STATE_PUBLISH == "publish"

\* The latest reading of the clock, in seconds since the epoch.
MaxClock == 1

\* breakpad_resource.py:108, the default of the dump_id_prefix option
dump_id_prefix == "bp-"

CrashIds == 1..MaxCrashes

VARIABLES
    crashmover_queue,   \* deque of crash reports (their indexes)
    reports,            \* the CrashReport objects: state, errors, and id and timestamps of the raw crash
    crashmover_pool,    \* the greenlets of the pool and what each is doing
    created,            \* number of CrashReport objects built by on_post
    request,            \* the last request on_post handled
    response,           \* what on_post answered to it
    calls,              \* history: backend calls that returned / raised, per report
    mymetrics,          \* history: the crashmover's counters, per report
    app,                \* app.py's handler: where it is, its request, response and storage
    parser              \* extract_payload alone: the request it is given and what it returns

vars == <<crashmover_queue, reports, crashmover_pool, created,
          request, response, calls, mymetrics, app, parser>>

(***************************************************************************)
(* Requests                                                                *)
(*                                                                         *)
(* content_type is the header split once on ";" and stripped (<<>> when    *)
(* the header is absent); content_length is 0 when the header is absent;   *)
(* gzip_ok says whether the body is a valid gzip stream; parts is what     *)
(* cgi.FieldStorage lists for the (decompressed) body; throttle is the     *)
(* answer the throttler gives for this crash.                              *)
(***************************************************************************)

EmptyDict == [k \in {} |-> ""]

Part(n, ty, isbytes, v, js) ==
    [name |-> n, type |-> ty, bytes |-> isbytes, value |-> v, json |-> js]

KvPart == Part("ProductName", "text/plain", FALSE, "Firefox", EmptyDict)
DumpPart == Part("upload_file_minidump", "application/octet-stream", TRUE, "abcd1234", EmptyDict)
FilePart == Part("memory_report", "text/plain", TRUE, "xyz", EmptyDict)
JsonPart == Part("extra", "application/json", FALSE, "{\"ProductName\":\"1\",\"Version\":\"1\"}",
                 [k \in {"ProductName", "Version"} |-> "1"])
EmptyJsonPart == Part("extra", "application/json", FALSE, "{}", EmptyDict)
\* A part declared application/json whose text is not JSON.
BadJsonPart == Part("extra", "application/json", FALSE, "{not json", EmptyDict)
\* A uuid field holding a crash id, and one holding something else.
UuidPart == Part("uuid", "text/plain", FALSE, "de1bb258-cbbf-4589-a673-34f800160918", EmptyDict)
InvalidUuidPart == Part("uuid", "text/plain", FALSE, "de1bb258-cbbf-4589-a673-34f8001609zz", EmptyDict)
ChecksumsPart == Part("dump_checksums", "application/json", FALSE, "",
                      [k \in {"upload_file_minidump"} |-> "e9cee71a"])

Multipart == <<"multipart/form-data", "boundary=xyz">>

\* antenna.throttler's results; on_post tells REJECT and FAKEACCEPT from the rest.
ThrottleResults == {"ACCEPT", "DEFER", "REJECT", "FAKEACCEPT"}

Req(ct, cl, enc, gz, ps, th) ==
    [content_type |-> ct, content_length |-> cl, content_encoding |-> enc,
     gzip_ok |-> gz, parts |-> ps, throttle |-> th]

\* The crash of the spec's happy path: an annotation and a minidump, accepted.
PlainCrash == Req(Multipart, 1, "identity", FALSE, <<KvPart, DumpPart>>, "ACCEPT")

Encodings == { <<"identity", FALSE>>, <<"gzip", TRUE>> }

\* Requests the parser accepts, one for each shape of the part list.
WellFormedRequests ==
    { Req(Multipart, 1, e[1], e[2], ps, th) :
        e \in Encodings,
        ps \in { <<KvPart, DumpPart>>, <<JsonPart, DumpPart>>, <<KvPart>>,
                 <<ChecksumsPart, KvPart, FilePart>>, <<JsonPart, JsonPart>> },
        th \in ThrottleResults }

\* Requests the parser gives up on, and requests it parses to no annotation.
DiscardedRequests ==
    { Req(ct, 1, "identity", FALSE, <<KvPart, DumpPart>>, "ACCEPT") :
        ct \in { <<>>, <<"application/json">>, <<"multipart/form-data">>,
                 <<"multipart/form-data", "charset=utf-8">>,
                 <<"text/plain", "boundary=xyz">> } }
    \cup { Req(Multipart, 0, "identity", FALSE, <<KvPart, DumpPart>>, "ACCEPT"),
           Req(Multipart, 1, "gzip", FALSE, <<KvPart, DumpPart>>, "ACCEPT") }
    \cup { Req(Multipart, 1, "identity", FALSE, ps, "ACCEPT") :
             ps \in { <<KvPart, JsonPart>>, <<JsonPart, KvPart>>,
                      <<JsonPart, DumpPart, KvPart>>, <<DumpPart>>, <<>>,
                      <<EmptyJsonPart, DumpPart>>, <<ChecksumsPart, DumpPart>> } }

Requests == WellFormedRequests \cup DiscardedRequests

NoRequest == Req(<<>>, 0, "none", FALSE, <<>>, "none")
NoResponse == [status |-> "none", content_type |-> "none", body |-> <<>>,
               malformed |-> <<>>, incoming_crash |-> 0, throttled |-> FALSE]

(***************************************************************************)
(* CrashReport                                                             *)
(***************************************************************************)

\* CrashReport.__init__: errors as given (default 0), no state yet.
CrashReport == [state |-> "None", errors |-> 0, crash_id |-> "", raw_crash_uuid |-> "",
                raw_crash_timestamp |-> 0, raw_crash_submitted_timestamp |-> ""]

\* A set_state that keeps the errors of the state left behind.
set_state_keeps_errors(report, new_state) == [report EXCEPT !.state = new_state]

\* A set_state that resets errors and forgets to move on.
set_state_keeps_state(report, new_state) ==
    [report EXCEPT !.state = IF @ = "None" THEN new_state ELSE @, !.errors = 0]

\* CrashReport.set_state: set the new state and reset errors.
set_state(report, new_state) == [report EXCEPT !.state = new_state, !.errors = 0]

(***************************************************************************)
(* The pool and the queue                                                  *)
(*                                                                         *)
(* The greenlets of the pool run crashmover_process_queue and differ only  *)
(* in where they are: ready counts those at the top of the while loop      *)
(* (just spawned, or back from a call), busy[c] those inside the backend   *)
(* call for crash report c.                                                *)
(***************************************************************************)

EmptyPool == [ready |-> 0, busy |-> [c \in CrashIds |-> 0]]

RECURSIVE Sum(_, _)
Sum(f, S) == IF S = {} THEN 0 ELSE LET x == CHOOSE y \in S : TRUE IN f[x] + Sum(f, S \ {x})

\* A pool length that counts only the greenlets inside a backend call.
PoolLen_busy(p) == Sum(p.busy, CrashIds)

\* len(self.crashmover_pool): the greenlets in the pool.
PoolLen(p) == p.ready + Sum(p.busy, CrashIds)

\* A pool that always reports a free slot.
free_count_unbounded(p) == 1

\* Pool.free_count()
free_count(p) == concurrent_crashmovers - PoolLen(p)

\* Pool.spawn(self.crashmover_process_queue): one more greenlet, which starts
\* at the top of the while loop when it is first scheduled.
spawn(p) == [p EXCEPT !.ready = @ + 1]

\* A hb_run_crashmover that spawns when the queue is empty.
hb_run_crashmover_inverted(q, p) ==
    IF q = <<>> /\ free_count(p) > 0 THEN spawn(p) ELSE p

\* hb_run_crashmover: spawn a crashmover if the queue holds work and the pool
\* has a free slot.
hb_run_crashmover(q, p) ==
    IF q # <<>> /\ free_count(p) > 0 THEN spawn(p) ELSE p

\* has_work_to_do
has_work_to_do == (PoolLen(crashmover_pool) + Len(crashmover_queue)) # 0

\* A retry test that allows one attempt more.
retry_once_more(report) == report.errors <= MAX_ATTEMPTS

\* The retry test of crashmover_process_queue's except branch.
retry(report) == report.errors < MAX_ATTEMPTS

(***************************************************************************)
(* extract_payload                                                         *)
(***************************************************************************)

StartsWith(s, prefix) ==
    /\ Len(s) >= Len(prefix)
    /\ SubSeq(s, 1, Len(prefix)) = prefix

\* sanitize_dump_name keeps names made of [A-Za-z0-9_-], as all names here are.
sanitize_dump_name(name) == name

\* raw_crash[name] = value
DictSet(d, k, v) == [x \in DOMAIN d \cup {k} |-> IF x = k THEN v ELSE d[x]]

\* One round of the loop over fs.list.
walk_item(acc, item) ==
    IF item.name = "dump_checksums"
    THEN acc
    ELSE IF item.type # "" /\ StartsWith(item.type, "application/json")
    THEN [acc EXCEPT !.has_json = TRUE, !.raw_crash = item.json]
    ELSE IF item.type # "" /\ (StartsWith(item.type, "application/octet-stream") \/ item.bytes)
    THEN [acc EXCEPT !.dumps = DictSet(@, sanitize_dump_name(item.name), item.value)]
    ELSE [acc EXCEPT !.has_kvpairs = TRUE,
                     !.raw_crash = DictSet(@, item.name, item.value)]

RECURSIVE walk_items(_, _)
walk_items(acc, items) ==
    IF items = <<>> THEN acc
    ELSE walk_items(walk_item(acc, Head(items)), Tail(items))

\* json.loads(fs_item.value) raises for a text that is no JSON; the texts here
\* are JSON objects when they are enclosed in braces.
json_loads_raises(item) ==
    ~(/\ Len(item.value) >= 2
      /\ SubSeq(item.value, 1, 1) = "{"
      /\ SubSeq(item.value, Len(item.value), Len(item.value)) = "}")

Payload(raw_crash, dumps, malformed, gzipped) ==
    [raw_crash |-> raw_crash, dumps |-> dumps, malformed |-> malformed, gzipped |-> gzipped]

\* A parser that tells every refused content type a wrong content type.
content_type_reason_always_wrong(ct) == "reason:wrong_content_type"

\* The malformed counter incremented for a content type that fails the test of
\* lines 223-225.
content_type_reason(ct) ==
    IF ct[1] # "multipart/form-data" THEN "reason:wrong_content_type" ELSE "reason:no_boundary"

\* A test that looks at the number of pieces only.
content_type_ok_any_type(ct) == Len(ct) = 2

\* The test of lines 223-225.
content_type_ok(ct) ==
    /\ Len(ct) = 2
    /\ ct[1] = "multipart/form-data"
    /\ StartsWith(ct[2], "boundary=")

\* extract_payload raises: the request passes the tests before the loop, and the
\* loop comes to an application/json item whose json.loads raises; nothing
\* catches it.
extract_payload_raises(req) ==
    /\ req.content_type # <<>>
    /\ content_type_ok(req.content_type)
    /\ req.content_length # 0
    /\ ~(req.content_encoding = "gzip" /\ ~req.gzip_ok)
    /\ \E i \in 1..Len(req.parts) :
           /\ req.parts[i].name # "dump_checksums"
           /\ req.parts[i].type # "" /\ StartsWith(req.parts[i].type, "application/json")
           /\ json_loads_raises(req.parts[i])

\* extract_payload: (raw_crash, dumps), with the malformed counters and the
\* gzipped_crash counter it incremented on the way.
extract_payload(req) ==
    IF req.content_type = <<>>
    THEN Payload(EmptyDict, EmptyDict, <<"reason:no_content_type">>, 0)
    ELSE IF ~content_type_ok(req.content_type)
    THEN Payload(EmptyDict, EmptyDict, <<content_type_reason(req.content_type)>>, 0)
    ELSE IF req.content_length = 0
    THEN Payload(EmptyDict, EmptyDict, <<"reason:no_content_length">>, 0)
    ELSE IF req.content_encoding = "gzip" /\ ~req.gzip_ok
    THEN Payload(EmptyDict, EmptyDict, <<"reason:bad_gzip">>, 1)
    ELSE LET acc == walk_items([raw_crash |-> EmptyDict, dumps |-> EmptyDict,
                                has_json |-> FALSE, has_kvpairs |-> FALSE], req.parts)
             gz == IF req.content_encoding = "gzip" THEN 1 ELSE 0
         IN  IF acc.has_json /\ acc.has_kvpairs
             THEN Payload(EmptyDict, EmptyDict, <<"reason:has_json_and_kv">>, gz)
             ELSE Payload(acc.raw_crash, acc.dumps, <<>>, gz)

(***************************************************************************)
(* The request on the wire                                                 *)
(*                                                                         *)
(* stream is the body as the client sent it. An octet of a multipart body  *)
(* stands for one of its parts. A gzip stream is a header, which holds the *)
(* length of what was compressed, and the runs of equal octets of it.      *)
(***************************************************************************)

Min(a, b) == IF a < b THEN a ELSE b

GzipHeader(isize) == [magic |-> "1f8b", isize |-> isize]
Run(octet, times) == [run |-> octet, times |-> times]

RECURSIVE deflate(_)
deflate(body) ==
    IF body = <<>> THEN <<>>
    ELSE LET rest == deflate(Tail(body))
         IN  IF rest # <<>> /\ Head(rest).run = Head(body)
             THEN <<Run(Head(body), Head(rest).times + 1)>> \o Tail(rest)
             ELSE <<Run(Head(body), 1)>> \o rest

\* What a client sends for body under Content-Encoding: gzip.
gzip(body) == <<GzipHeader(Len(body))>> \o deflate(body)

RECURSIVE inflate(_)
inflate(runs) ==
    IF runs = <<>> THEN <<>>
    ELSE [i \in 1..Head(runs).times |-> Head(runs).run] \o inflate(Tail(runs))

\* zlib.decompress(data, 16 + zlib.MAX_WBITS) raises zlib.error: data does not
\* start with a gzip header, or it ends before the length the header tells.
zlib_error(data) ==
    \/ data = <<>>
    \/ DOMAIN Head(data) # {"magic", "isize"}
    \/ \E i \in 2..Len(data) : DOMAIN data[i] # {"run", "times"}
    \/ Len(inflate(Tail(data))) # Head(data).isize

\* zlib.decompress(data, 16 + zlib.MAX_WBITS), when it does not raise.
decompress(data) == inflate(Tail(data))

\* stream.read(size)
read(stream, size) == SubSeq(stream, 1, Min(size, Len(stream)))

\* fs.list of cgi.FieldStorage(fp=data, environ=req.env): the parts found in
\* the first CONTENT_LENGTH octets of data.
FieldStorage(data, CONTENT_LENGTH) ==
    SelectSeq(read(data, CONTENT_LENGTH), LAMBDA octet : "name" \in DOMAIN octet)

\* An extract_payload that leaves CONTENT_LENGTH as the request gave it.
content_length_not_stomped(content_length, data) == content_length

\* Lines 259-261: the content length after decompression.
content_length_stomped(content_length, data) == Len(data)

HttpReq(ct, cl, enc, stream, th) ==
    [content_type |-> ct, content_length |-> cl, content_encoding |-> enc,
     stream |-> stream, throttle |-> th]

\* What lines 240-281 of extract_payload make of the body of http: whether
\* zlib.decompress takes it, and the list of the FieldStorage built from it.
falcon_req(http) ==
    LET is_gzip == http.content_encoding = "gzip"
        compressed == read(http.stream, http.content_length)
        gzip_ok == is_gzip /\ ~zlib_error(compressed)
        fs_list == IF is_gzip
                   THEN IF gzip_ok
                        THEN FieldStorage(decompress(compressed),
                                          content_length_stomped(http.content_length,
                                                                 decompress(compressed)))
                        ELSE <<>>
                   ELSE FieldStorage(http.stream, http.content_length)
    IN  Req(http.content_type, http.content_length, http.content_encoding,
            gzip_ok, fs_list, http.throttle)

\* extract_payload before it is called.
NoHttpReq == HttpReq(<<>>, 0, "none", <<>>, "none")
NoParser == [pc |-> "idle", http |-> NoHttpReq,
             payload |-> Payload(EmptyDict, EmptyDict, <<>>, 0)]

(***************************************************************************)
(* on_post                                                                 *)
(***************************************************************************)

\* What time.time() and utc_now() can read.
Clock == 0..MaxClock

Digits == <<"0", "1", "2", "3", "4", "5", "6", "7", "8", "9">>

\* datetime.isoformat() of the UTC datetime that is t seconds after the epoch.
isoformat(t) == "1970-01-01T00:00:0" \o Digits[t + 1] \o "+00:00"

Response(body, malformed, incoming_crash, throttled) ==
    [status |-> "200 OK", content_type |-> "text/plain", body |-> body,
     malformed |-> malformed, incoming_crash |-> incoming_crash, throttled |-> throttled]

Discarded == <<"Discarded=1">>
CrashID(crash_id) == <<"CrashID=", dump_id_prefix, crash_id, "\n">>

\* A dispatch that saves what the throttler fake-accepts.
dispatch_fake_saves(throttle_result) ==
    IF throttle_result = "REJECT" THEN "discard" ELSE "save"

\* antenna.util.validate_crash_id, as the specification's section 4.B gives it:
\* the dash-grouped 8-4-4-4-12 hex shape, the last two digits a day of the month.
HexDigits == {"0", "1", "2", "3", "4", "5", "6", "7", "8", "9",
              "a", "b", "c", "d", "e", "f", "A", "B", "C", "D", "E", "F"}

DaysOfMonth == {"01", "02", "03", "04", "05", "06", "07", "08", "09", "10",
                "11", "12", "13", "14", "15", "16", "17", "18", "19", "20",
                "21", "22", "23", "24", "25", "26", "27", "28", "29", "30", "31"}

validate_crash_id(crash_id) ==
    /\ Len(crash_id) = 36
    /\ \A i \in 1..36 :
           IF i \in {9, 14, 19, 24}
           THEN SubSeq(crash_id, i, i) = "-"
           ELSE SubSeq(crash_id, i, i) \in HexDigits
    /\ SubSeq(crash_id, 35, 36) \in DaysOfMonth

\* antenna.util.create_crash_id: a new crash id of that shape. Its random digits
\* and the digits for the throttle result and the date are one fixed choice here.
create_crash_id(throttle_result) == "0b9ff107-8672-4aac-8b75-b2bd80160905"

\* A handler that takes any uuid it is given.
crash_id_unvalidated(raw_crash, throttle_result) ==
    IF "uuid" \in DOMAIN raw_crash THEN raw_crash["uuid"]
    ELSE create_crash_id(throttle_result)

\* on_post's choice of the crash id: the uuid given if it is valid, else a new one.
crash_id_of(raw_crash, throttle_result) ==
    IF "uuid" \in DOMAIN raw_crash /\ validate_crash_id(raw_crash["uuid"])
    THEN raw_crash["uuid"]
    ELSE create_crash_id(throttle_result)

\* The response when an exception leaves on_post: the server's error answer,
\* not the status and the content type on_post had set.
Raised == [status |-> "500 Internal Server Error", content_type |-> "none", body |-> <<>>,
           malformed |-> <<>>, incoming_crash |-> 0, throttled |-> FALSE]

\* What on_post does with the throttle result: "discard" (REJECT), "fake"
\* (FAKEACCEPT) or "save" (anything else).
dispatch(throttle_result) ==
    IF throttle_result = "REJECT" THEN "discard"
    ELSE IF throttle_result = "FAKEACCEPT" THEN "fake"
    ELSE "save"

\* An on_post that takes every parse for a crash.
is_empty_never(raw_crash) == FALSE

\* on_post's test of the parsed annotations: "if not raw_crash".
is_empty(raw_crash) == DOMAIN raw_crash = {}

(***************************************************************************)
(* History kept for the claims: per crash report, the save_crash calls and *)
(* the publish_crash calls that returned, the calls that raised of the     *)
(* backend whose turn it is (save_crash until one returned, publish_crash  *)
(* from then on), whether save_crash returned after it had raised with no  *)
(* call raising since, and the counters the crashmover incremented.        *)
(***************************************************************************)

NoCalls == [saved |-> 0, published |-> 0, raised |-> 0, recovered |-> FALSE]
\* app.py's resource before its first request: nothing stored.
NoApp == [pc |-> "idle", request |-> NoRequest, response |-> NoResponse,
          crash_id |-> "", raw_crash |-> EmptyDict, dumps |-> EmptyDict,
          crashstorage |-> {}, handled |-> 0]

NoMetrics == [save_dropped |-> 0, publish_dropped |-> 0, save_crash |-> 0, handling_time |-> 0]

Init ==
    /\ crashmover_queue = <<>>
    /\ reports = [c \in CrashIds |-> CrashReport]
    /\ crashmover_pool = EmptyPool
    /\ created = 0
    /\ request = NoRequest
    /\ response = NoResponse
    /\ calls = [c \in CrashIds |-> NoCalls]
    /\ mymetrics = [c \in CrashIds |-> NoMetrics]
    /\ app = NoApp
    /\ parser = NoParser

\* on_post's last branch: build the CrashReport, set_state(STATE_SAVE),
\* append it to the queue and call hb_run_crashmover.
enqueue(c, raw_crash, crash_id) ==
    LET q == Append(crashmover_queue, c)
    IN  /\ created' = c
        /\ reports' = [reports EXCEPT ![c] =
                           set_state([CrashReport EXCEPT
                                          !.crash_id = crash_id,
                                          !.raw_crash_uuid = raw_crash["uuid"],
                                          !.raw_crash_timestamp = raw_crash["timestamp"],
                                          !.raw_crash_submitted_timestamp =
                                              raw_crash["submitted_timestamp"]],
                                     STATE_SAVE)]
        /\ crashmover_queue' = q
        /\ crashmover_pool' = hb_run_crashmover(q, crashmover_pool)

\* on_post, for a clock that reads start_time at line 356, before the request
\* is parsed, and current_timestamp at line 372, after it.
on_post(req, start_time, current_timestamp) ==
    /\ created < MaxCrashes
    /\ request' = req
    /\ LET payload == extract_payload(req)
       IN  IF extract_payload_raises(req)
           THEN /\ response' = Raised
                /\ UNCHANGED <<crashmover_queue, reports, crashmover_pool, created>>
           ELSE IF is_empty(payload.raw_crash)
           THEN /\ response' = Response(Discarded, payload.malformed, 0, FALSE)
                /\ UNCHANGED <<crashmover_queue, reports, crashmover_pool, created>>
           ELSE LET stamped == DictSet(DictSet(payload.raw_crash, "submitted_timestamp",
                                               isoformat(current_timestamp)),
                                       "timestamp", start_time)
                    crash_id == crash_id_of(stamped, req.throttle)
                    raw_crash == IF "uuid" \in DOMAIN stamped
                                    /\ validate_crash_id(stamped["uuid"])
                                 THEN stamped
                                 ELSE DictSet(stamped, "uuid", crash_id)
                    what == dispatch(req.throttle)
                IN  /\ response' = Response(IF what = "discard" THEN Discarded
                                            ELSE CrashID(crash_id),
                                            payload.malformed, 1, TRUE)
                    /\ IF what = "save"
                       THEN enqueue(created + 1, raw_crash, crash_id)
                       ELSE UNCHANGED <<crashmover_queue, reports, crashmover_pool, created>>
    /\ UNCHANGED <<calls, mymetrics, app, parser>>

\* The heartbeat calls hb_run_crashmover.
Heartbeat ==
    /\ crashmover_pool' = hb_run_crashmover(crashmover_queue, crashmover_pool)
    /\ UNCHANGED <<crashmover_queue, reports, created, request, response, calls, mymetrics, app, parser>>

\* A crashmover that publishes whatever it pops.
backend_call_publish_first(report_state) ==
    IF report_state \in {STATE_SAVE, STATE_PUBLISH} THEN "publish_crash" ELSE "none"

\* The backend call crashmover_process_queue makes for a report in this state.
backend_call(report_state) ==
    IF report_state = STATE_SAVE THEN "save_crash"
    ELSE IF report_state = STATE_PUBLISH THEN "publish_crash"
    ELSE "none"

\* A crashmover that reads the head of the queue and leaves it there.
popleft_peek(q) == q

\* The queue after deque.popleft().
popleft(q) == Tail(q)

\* crashmover_process_queue: the loop test, the popleft and the start of the
\* backend call the popped report's state asks for. The greenlet ends, and
\* leaves the pool, when it finds the queue empty.
crashmover_take ==
    /\ crashmover_pool.ready > 0
    /\ IF crashmover_queue = <<>>
       THEN /\ crashmover_pool' = [crashmover_pool EXCEPT !.ready = @ - 1]
            /\ UNCHANGED crashmover_queue
       ELSE LET c == Head(crashmover_queue)
            IN  /\ crashmover_queue' = popleft(crashmover_queue)
                /\ IF backend_call(reports[c].state) = "none"
                   THEN UNCHANGED crashmover_pool
                   ELSE crashmover_pool' = [crashmover_pool EXCEPT !.ready = @ - 1,
                                                                   !.busy[c] = @ + 1]
    /\ UNCHANGED <<reports, created, request, response, calls, mymetrics, app, parser>>

\* A crashmover whose greenlet ends with the backend call.
back_dies(p, c) == [p EXCEPT !.busy[c] = @ - 1]

\* The pool when the greenlet in the backend call for c is back at the top of
\* the while loop.
back(p, c) == [p EXCEPT !.ready = @ + 1, !.busy[c] = @ - 1]

\* A crashmover that puts a report back at the head of the queue.
requeue_front(q, c) == <<c>> \o q

\* A crashmover that loses the report it should put back.
requeue_lost(q, c) == q

\* The queue after a crashmover puts a report back.
requeue(q, c) == Append(q, c)

\* save_crash returned: set_state(STATE_PUBLISH) and append to the queue.
save_returns(c) ==
    /\ crashmover_pool.busy[c] > 0
    /\ backend_call(reports[c].state) = "save_crash"
    /\ reports' = [reports EXCEPT ![c] = set_state(reports[c], STATE_PUBLISH)]
    /\ crashmover_queue' = requeue(crashmover_queue, c)
    /\ calls' = [calls EXCEPT ![c].saved = @ + 1, ![c].raised = 0,
                             ![c].recovered = (calls[c].raised > 0)]
    /\ crashmover_pool' = back(crashmover_pool, c)
    /\ UNCHANGED <<created, request, response, mymetrics, app, parser>>

\* crashmover_finish: the handling time and save_crash.count.
crashmover_finish(m) ==
    [m EXCEPT !.handling_time = @ + 1, !.save_crash = @ + 1]

\* publish_crash returned: crashmover_finish, and the report is done.
publish_returns(c) ==
    /\ crashmover_pool.busy[c] > 0
    /\ backend_call(reports[c].state) = "publish_crash"
    /\ mymetrics' = [mymetrics EXCEPT ![c] = crashmover_finish(@)]
    /\ calls' = [calls EXCEPT ![c].published = @ + 1]
    /\ crashmover_pool' = back(crashmover_pool, c)
    /\ UNCHANGED <<reports, crashmover_queue, created, request, response, app, parser>>

\* The <state>_crash_dropped.count counter.
dropped(m, report_state) ==
    IF report_state = STATE_SAVE
    THEN [m EXCEPT !.save_dropped = @ + 1]
    ELSE [m EXCEPT !.publish_dropped = @ + 1]

\* save_crash or publish_crash raised: the except branch. One more error; the
\* report goes back to the queue unless it has failed MAX_ATTEMPTS times.
backend_raises(c) ==
    /\ crashmover_pool.busy[c] > 0
    /\ LET r == [reports[c] EXCEPT !.errors = @ + 1]
       IN  /\ reports' = [reports EXCEPT ![c] = r]
           /\ calls' = [calls EXCEPT ![c].raised = @ + 1, ![c].recovered = FALSE]
           /\ IF retry(r)
              THEN /\ crashmover_queue' = requeue(crashmover_queue, c)
                   /\ UNCHANGED mymetrics
              ELSE /\ mymetrics' = [mymetrics EXCEPT ![c] = dropped(@, r.state)]
                   /\ UNCHANGED crashmover_queue
    /\ crashmover_pool' = back(crashmover_pool, c)
    /\ UNCHANGED <<created, request, response, app, parser>>

(***************************************************************************)
(* Spec: the crashmover pipeline fed with the happy-path crash, its        *)
(* backends raising at will.                                               *)
(***************************************************************************)
Next ==
    \/ on_post(PlainCrash, 0, 0)
    \/ Heartbeat
    \/ crashmover_take
    \/ \E c \in CrashIds : save_returns(c)
    \/ \E c \in CrashIds : publish_returns(c)
    \/ \E c \in CrashIds : backend_raises(c)

Spec == Init /\ [][Next]_vars

\* backend_raises, for a report whose calls raised fewer than MaxRaises times in
\* a row.
backend_raises_some(c) ==
    /\ calls[c].raised < MaxRaises
    /\ backend_raises(c)

(***************************************************************************)
(* SpecPost: the handler fed with every request of Requests, the backends  *)
(* raising at most MaxRaises times in a row for one report.                *)
(***************************************************************************)
NextPost ==
    \/ \E req \in Requests : on_post(req, 0, 0)
    \/ Heartbeat
    \/ crashmover_take
    \/ \E c \in CrashIds : save_returns(c)
    \/ \E c \in CrashIds : publish_returns(c)
    \/ \E c \in CrashIds : backend_raises_some(c)

SpecPost == Init /\ [][NextPost]_vars

(***************************************************************************)
(* SpecSubmit: the handler fed with requests that give or lack a uuid, carry *)
(* no dump, or hold a JSON part that does not decode; the crashmovers as   *)
(* in SpecPost.                                                            *)
(***************************************************************************)
SubmitRequests ==
    { Req(Multipart, 1, "identity", FALSE, ps, th) :
        ps \in { <<UuidPart, KvPart, DumpPart>>, <<InvalidUuidPart, KvPart, DumpPart>> },
        th \in {"ACCEPT", "FAKEACCEPT"} }
    \cup { Req(Multipart, 1, "identity", FALSE, ps, "ACCEPT") :
             ps \in { <<KvPart, DumpPart>>, <<KvPart>>, <<BadJsonPart, DumpPart>> } }
    \cup { Req(Multipart, 1, "identity", FALSE, <<KvPart, DumpPart>>, "REJECT") }

NextSubmit ==
    \/ \E req \in SubmitRequests : on_post(req, 0, 0)
    \/ Heartbeat
    \/ crashmover_take
    \/ \E c \in CrashIds : save_returns(c)
    \/ \E c \in CrashIds : publish_returns(c)
    \/ \E c \in CrashIds : backend_raises_some(c)

SpecSubmit == Init /\ [][NextSubmit]_vars

(***************************************************************************)
(* FairSpec: Spec, with the heartbeat and the crashmovers scheduled and    *)
(* every backend call coming back, by returning or by raising.             *)
(***************************************************************************)
backend_call_ends(c) == save_returns(c) \/ publish_returns(c) \/ backend_raises(c)

FairSpec ==
    /\ Spec
    /\ WF_vars(Heartbeat)
    /\ WF_vars(crashmover_take)
    /\ \A c \in CrashIds : WF_vars(backend_call_ends(c))

(***************************************************************************)
(* app.py: the resource get_app routes /submit to. It has no queue: its    *)
(* on_post calls crashstorage.save_raw_crash itself.                       *)
(***************************************************************************)

\* Form posts for app.py: text fields and files, plain or gzipped, one of them
\* with a body that does not decompress.
AppRequests ==
    { Req(Multipart, 1, e[1], e[2], ps, "none") :
        e \in Encodings \cup { <<"gzip", FALSE>> },
        ps \in { <<KvPart, DumpPart>>, <<KvPart>>, <<UuidPart, KvPart, DumpPart>>,
                 <<InvalidUuidPart, KvPart, DumpPart>>,
                 <<ChecksumsPart, KvPart, FilePart>>, <<DumpPart>> } }

\* hashlib.md5(val).hexdigest()
md5(val) == "md5:" \o val

RECURSIVE strip(_, _)
\* str.strip(chars), for a one-character chars
strip(s, ch) ==
    IF Len(s) > 0 /\ SubSeq(s, 1, 1) = ch THEN strip(SubSeq(s, 2, Len(s)), ch)
    ELSE IF Len(s) > 0 /\ SubSeq(s, Len(s), Len(s)) = ch THEN strip(SubSeq(s, 1, Len(s) - 1), ch)
    ELSE s

\* antenna.lib.ooid.create_new_ooid: a new crash id.
create_new_ooid == "0b9ff107-8672-4aac-8b75-b2bd80160905"

\* One round of app.py's loop over payload.items().
app_walk_item(acc, item) ==
    IF item.name = "dump_checksums"
    THEN acc
    ELSE IF ~item.bytes
    THEN [acc EXCEPT !.raw_crash = DictSet(@, item.name, item.value)]
    ELSE [acc EXCEPT !.dumps = DictSet(@, item.name, item.value),
                     !.dump_checksums = DictSet(@, item.name, md5(item.value))]

RECURSIVE app_walk_items(_, _)
app_walk_items(acc, items) ==
    IF items = <<>> THEN acc
    ELSE app_walk_items(app_walk_item(acc, Head(items)), Tail(items))

\* app.py's extract_payload, for a body that decompresses: (raw_crash, dumps).
app_extract_payload(req) ==
    LET acc == app_walk_items([raw_crash |-> EmptyDict, dumps |-> EmptyDict,
                               dump_checksums |-> EmptyDict], req.parts)
    IN  [raw_crash |-> IF DOMAIN acc.dump_checksums = {} THEN acc.raw_crash
                       ELSE DictSet(acc.raw_crash, "dump_checksums", acc.dump_checksums),
         dumps |-> acc.dumps]

\* app.py's on_post up to its call of crashstorage.save_raw_crash; zlib.decompress
\* raises for a body that is not gzip, and nothing catches it.
app_on_post(req) ==
    /\ app.pc # "save_raw_crash"
    /\ app.handled < MaxCrashes
    /\ IF req.content_encoding = "gzip" /\ ~req.gzip_ok
       THEN app' = [app EXCEPT !.pc = "decompress_raised", !.request = req,
                               !.response = [NoResponse EXCEPT !.content_type = "text/plain"],
                               !.crash_id = "", !.raw_crash = EmptyDict, !.dumps = EmptyDict,
                               !.handled = @ + 1]
       ELSE LET payload == app_extract_payload(req)
                stamped == DictSet(DictSet(payload.raw_crash, "submitted_timestamp", "utc_now"),
                                   "timestamp", "time.time")
                crash_id == IF "uuid" \in DOMAIN stamped THEN stamped["uuid"]
                            ELSE create_new_ooid
                raw_crash == DictSet(DictSet(stamped, "uuid", crash_id),
                                     "type_tag", strip(dump_id_prefix, "-"))
            IN  app' = [app EXCEPT !.pc = "save_raw_crash", !.request = req,
                                   !.response = [NoResponse EXCEPT !.content_type = "text/plain"],
                                   !.crash_id = crash_id, !.raw_crash = raw_crash,
                                   !.dumps = payload.dumps, !.handled = @ + 1]
    /\ UNCHANGED <<crashmover_queue, reports, crashmover_pool, created,
                   request, response, calls, mymetrics, parser>>

\* save_raw_crash returned: on_post sets the status and the body.
app_save_raw_crash_returns ==
    /\ app.pc = "save_raw_crash"
    /\ app' = [app EXCEPT !.pc = "done",
                          !.crashstorage = @ \cup {[crash_id |-> app.crash_id,
                                                    raw_crash |-> app.raw_crash,
                                                    dumps |-> app.dumps]},
                          !.response = [@ EXCEPT !.status = "200 OK",
                                                 !.body = CrashID(app.crash_id)]]
    /\ UNCHANGED <<crashmover_queue, reports, crashmover_pool, created,
                   request, response, calls, mymetrics, parser>>

\* save_raw_crash raised: the exception leaves on_post, which sets no body.
app_save_raw_crash_raises ==
    /\ app.pc = "save_raw_crash"
    /\ app' = [app EXCEPT !.pc = "save_raised"]
    /\ UNCHANGED <<crashmover_queue, reports, crashmover_pool, created,
                   request, response, calls, mymetrics, parser>>

NextApp ==
    \/ \E req \in AppRequests : app_on_post(req)
    \/ app_save_raw_crash_returns
    \/ app_save_raw_crash_raises

SpecApp == Init /\ [][NextApp]_vars

(***************************************************************************)
(* SpecClock: the handler under a clock that moves: its two readings are   *)
(* any two of Clock, the second not before the first. The crashmovers as   *)
(* in SpecPost.                                                            *)
(***************************************************************************)
ClockRequests ==
    { Req(Multipart, 1, e[1], e[2], ps, "ACCEPT") :
        e \in Encodings, ps \in { <<KvPart, DumpPart>>, <<JsonPart, DumpPart>> } }

NextClock ==
    \/ \E req \in ClockRequests, start_time \in Clock, current_timestamp \in Clock :
           /\ start_time <= current_timestamp
           /\ on_post(req, start_time, current_timestamp)
    \/ Heartbeat
    \/ crashmover_take
    \/ \E c \in CrashIds : save_returns(c)
    \/ \E c \in CrashIds : publish_returns(c)
    \/ \E c \in CrashIds : backend_raises_some(c)

SpecClock == Init /\ [][NextClock]_vars

(***************************************************************************)
(* SpecParse: extract_payload alone, given one request of HttpRequests:    *)
(* every body of Bodies, plain and compressed, whole, cut short and with   *)
(* no Content-Length, under every content type of ContentTypes.            *)
(***************************************************************************)
Bodies ==
    { <<KvPart, DumpPart>>, <<JsonPart, DumpPart>>, <<KvPart>>, <<DumpPart>>, <<>>,
      <<KvPart, JsonPart>>, <<JsonPart, DumpPart, KvPart>>, <<JsonPart, JsonPart>>,
      <<ChecksumsPart, KvPart, FilePart>>, <<EmptyJsonPart, DumpPart>>,
      <<BadJsonPart, DumpPart>>, <<DumpPart, DumpPart, DumpPart, KvPart>> }

ContentTypes ==
    { <<>>, <<"application/json">>, <<"multipart/form-data">>,
      <<"multipart/form-data", "charset=utf-8">>, <<"text/plain", "boundary=xyz">>,
      Multipart }

\* The Content-Length headers tried for a stream: none, the length of the
\* stream, and one octet less.
ContentLengths(stream) == {0, Len(stream)} \cup ({Len(stream) - 1} \cap Nat)

HttpRequests ==
    UNION { { HttpReq(ct, cl, "identity", body, "ACCEPT") :
                ct \in ContentTypes, cl \in {0, Len(body)} } : body \in Bodies }
    \cup UNION { { HttpReq(ct, cl, "gzip", stream, "ACCEPT") :
                     ct \in ContentTypes, cl \in ContentLengths(stream) } :
                 stream \in Bodies \cup { gzip(body) : body \in Bodies } }

\* extract_payload is called with a request of HttpRequests.
InitParse ==
    /\ crashmover_queue = <<>>
    /\ reports = [c \in CrashIds |-> CrashReport]
    /\ crashmover_pool = EmptyPool
    /\ created = 0
    /\ request = NoRequest
    /\ response = NoResponse
    /\ calls = [c \in CrashIds |-> NoCalls]
    /\ mymetrics = [c \in CrashIds |-> NoMetrics]
    /\ app = NoApp
    /\ parser \in { [NoParser EXCEPT !.pc = "called", !.http = http] : http \in HttpRequests }

\* extract_payload returns (raw_crash, dumps), or json.loads raises in it.
parse ==
    /\ parser.pc = "called"
    /\ LET req == falcon_req(parser.http)
       IN  parser' = IF extract_payload_raises(req)
                     THEN [parser EXCEPT !.pc = "raised"]
                     ELSE [parser EXCEPT !.pc = "returned", !.payload = extract_payload(req)]
    /\ UNCHANGED <<crashmover_queue, reports, crashmover_pool, created,
                   request, response, calls, mymetrics, app>>

NextParse == parse

SpecParse == InitParse /\ [][NextParse]_vars

(***************************************************************************)
(* Where a crash report is.                                                *)
(***************************************************************************)

Built == 1..created

InQueue(c) == Cardinality({i \in 1..Len(crashmover_queue) : crashmover_queue[i] = c})

\* The crashmovers that hold c: they popped it and are in its backend call.
Holders(c) == crashmover_pool.busy[c]

InCall(c, call) == crashmover_pool.busy[c] > 0 /\ backend_call(reports[c].state) = call

Drops(c) == mymetrics[c].save_dropped + mymetrics[c].publish_dropped

\* How often the report left the pipeline: published, or dropped.
Left(c) == calls[c].published + Drops(c)

(***************************************************************************)
(* C1: publish_crash is called for a crash report only after a save_crash  *)
(* call for that report returned without raising: whenever a crashmover is *)
(* in publish_crash for a report, and whenever publish_crash has returned  *)
(* for it, save_crash has returned for it before.                          *)
(***************************************************************************)
C1_SaveBeforePublish ==
    \A c \in CrashIds :
        (InCall(c, "publish_crash") \/ calls[c].published > 0) => calls[c].saved > 0

\* A crashmover is publishing one report while the other, whose save raised,
\* waits in the queue.
C1_Witness ==
    \E c, d \in Built :
        /\ InCall(c, "publish_crash")
        /\ reports[d].state = STATE_SAVE /\ calls[d].raised > 0 /\ InQueue(d) = 1

(***************************************************************************)
(* C2: while no save_crash call has returned for a report (every attempt   *)
(* raised), publish_crash is never called for it; it stays in the pipeline *)
(* until MAX_ATTEMPTS save attempts have raised, and with the              *)
(* MAX_ATTEMPTS-th it is gone for good: save_crash_dropped.count is        *)
(* incremented once, and the report is neither queued nor held again.      *)
(***************************************************************************)
C2_DropAfterMaxAttempts ==
    \A c \in Built :
        calls[c].saved = 0 =>
            /\ calls[c].published = 0 /\ ~InCall(c, "publish_crash")
            /\ calls[c].raised <= MAX_ATTEMPTS
            /\ InCall(c, "save_crash") => calls[c].raised < MAX_ATTEMPTS
            /\ mymetrics[c].publish_dropped = 0
            /\ IF calls[c].raised = MAX_ATTEMPTS
               THEN mymetrics[c].save_dropped = 1 /\ InQueue(c) = 0 /\ Holders(c) = 0
               ELSE mymetrics[c].save_dropped = 0 /\ InQueue(c) + Holders(c) = 1

\* A report whose save raised MAX_ATTEMPTS times.
C2_Witness ==
    \E c \in Built : calls[c].saved = 0 /\ calls[c].raised = MAX_ATTEMPTS

(***************************************************************************)
(* C3: errors is reset on every state transition, so it counts the calls   *)
(* that raised in the report's present state: the save_crash calls that    *)
(* raised until one returned, the publish_crash calls from then on. A      *)
(* report is dropped in PUBLISH only after MAX_ATTEMPTS publish calls      *)
(* raised, and a                                                           *)
(* call is only ever started with fewer than MAX_ATTEMPTS failures behind  *)
(* it in that state, so there are at most MAX_ATTEMPTS save calls and at   *)
(* most MAX_ATTEMPTS publish calls for one report.                         *)
(***************************************************************************)
C3_ErrorsResetPerState ==
    \A c \in Built :
        /\ reports[c].errors = calls[c].raised
        /\ calls[c].saved <= 1 /\ calls[c].published <= 1
        /\ (reports[c].state = STATE_PUBLISH) = (calls[c].saved = 1)
        /\ Holders(c) > 0 => calls[c].raised < MAX_ATTEMPTS
        /\ mymetrics[c].publish_dropped > 0 =>
              /\ mymetrics[c].publish_dropped = 1
              /\ calls[c].saved = 1
              /\ calls[c].raised = MAX_ATTEMPTS

\* A saved report dropped after MAX_ATTEMPTS publish calls raised.
C3_Witness ==
    \E c \in Built :
        /\ reports[c].state = STATE_PUBLISH
        /\ mymetrics[c].publish_dropped = 1
        /\ reports[c].errors = MAX_ATTEMPTS

(***************************************************************************)
(* C4: every crash report in the queue has 0 <= errors < MAX_ATTEMPTS.     *)
(***************************************************************************)
C4_QueuedErrorsBelowMax ==
    \A i \in 1..Len(crashmover_queue) :
        /\ reports[crashmover_queue[i]].errors >= 0
        /\ reports[crashmover_queue[i]].errors < MAX_ATTEMPTS

\* A report is queued for its last attempt.
C4_Witness ==
    \E i \in 1..Len(crashmover_queue) :
        reports[crashmover_queue[i]].errors = MAX_ATTEMPTS - 1

(***************************************************************************)
(* C5: every crash report on_post enqueued is in exactly one place: once   *)
(* in the queue, or held by exactly one crashmover, or out of the pipeline *)
(* (published or dropped, once).                                           *)
(***************************************************************************)
C5_ExactlyOnePlace ==
    \A c \in Built : InQueue(c) + Holders(c) + Left(c) = 1

\* Both crashmovers hold a report, at once.
C5_Witness ==
    \E c, d \in Built : c # d /\ Holders(c) = 1 /\ Holders(d) = 1

(***************************************************************************)
(* C6: under FairSpec (every backend call returns or raises, the           *)
(* crashmovers and the heartbeat get their turns) every crash report that  *)
(* on_post enqueued is eventually published or dropped, and from some      *)
(* point on has_work_to_do is false for good, however often the backends   *)
(* raise.                                                                  *)
(***************************************************************************)
C6_DrainLiveness ==
    /\ \A c \in CrashIds : (c \in Built) ~> (Left(c) = 1)
    /\ <>[](~has_work_to_do)

\* Every report has left the pipeline, one of them dropped after its saves
\* raised, another published, and there is no work left.
C6_Witness ==
    /\ created = MaxCrashes
    /\ ~has_work_to_do
    /\ \E c, d \in Built :
        /\ mymetrics[c].save_dropped = 1 /\ reports[c].errors = MAX_ATTEMPTS
        /\ calls[d].published = 1

(***************************************************************************)
(* C7: a report whose save raises k < MAX_ATTEMPTS times and then returns, *)
(* and whose publish then returns. Each save that raises puts the report   *)
(* back at the tail of the queue with errors one higher, so errors counts  *)
(* the k failures; the save that returns is the last save call made for    *)
(* the report (k + 1 calls), it resets errors to 0 and queues the report   *)
(* for publishing; the publish that returns records the handling time and  *)
(* save_crash.count once, and the report is never queued or held again.    *)
(***************************************************************************)
C7_State(c) ==
    /\ calls[c].saved <= 1 /\ calls[c].published <= 1
    /\ calls[c].saved = 1 => ~InCall(c, "save_crash")
    /\ calls[c].saved = 0 => reports[c].state = STATE_SAVE /\ reports[c].errors = calls[c].raised
    /\ mymetrics[c].handling_time = calls[c].published
    /\ mymetrics[c].save_crash = calls[c].published
    /\ calls[c].published = 1 => calls[c].saved = 1 /\ InQueue(c) = 0 /\ Holders(c) = 0
    /\ (calls[c].saved = 1 /\ calls[c].published = 0 /\ calls[c].raised = 0) =>
           /\ reports[c].state = STATE_PUBLISH /\ reports[c].errors = 0
           /\ InQueue(c) + Holders(c) = 1

C7_Step(c) ==
    /\ (calls'[c].raised = calls[c].raised + 1 /\ calls'[c].raised < MAX_ATTEMPTS) =>
           /\ reports'[c].errors = reports[c].errors + 1
           /\ reports'[c].state = reports[c].state
           /\ crashmover_queue' = Append(crashmover_queue, c)
    /\ calls'[c].saved = calls[c].saved + 1 =>
           /\ InCall(c, "save_crash")
           /\ reports'[c].state = STATE_PUBLISH /\ reports'[c].errors = 0
           /\ crashmover_queue' = Append(crashmover_queue, c)
    /\ calls'[c].published = calls[c].published + 1 =>
           /\ InCall(c, "publish_crash")
           /\ crashmover_queue' = crashmover_queue

C7_RetryThenSuccess ==
    /\ [](\A c \in Built : C7_State(c))
    /\ [][\A c \in CrashIds : C7_Step(c)]_vars

\* A report is published, at the first attempt, after its save had raised.
C7_Witness ==
    \E c \in Built :
        /\ calls[c].saved = 1 /\ calls[c].recovered
        /\ calls[c].published = 1 /\ calls[c].raised = 0
        /\ mymetrics[c].handling_time = 1

(***************************************************************************)
(* C8: the handler answers 'CrashID=' without waiting for the storage:     *)
(* while it waits in the storage call for a submission, and after that     *)
(* call raised, the response with the crash id is already there. Stated    *)
(* for app.py's on_post, the handler get_app serves.                       *)
(***************************************************************************)
C8_AcceptBeforePersist ==
    app.pc \in {"save_raw_crash", "save_raised"} =>
        app.response.body = CrashID(app.crash_id)

(***************************************************************************)
(* C8, for the handler of breakpad_resource.py: the step that appends a    *)
(* new report to the queue sets the 'CrashID=' response while no backend   *)
(* call has been made for the report, and no step of a crashmover touches  *)
(* the response.                                                           *)
(***************************************************************************)
C8_QueueHandlerAnswersFirst ==
    [][ /\ created' # created =>
            /\ response'.body = CrashID(create_crash_id(request'.throttle))
            /\ crashmover_queue' = Append(crashmover_queue, created')
            /\ calls'[created'] = NoCalls
            /\ crashmover_pool'.busy[created'] = 0
        /\ (calls' # calls \/ mymetrics' # mymetrics) => response' = response ]_vars

(***************************************************************************)
(* C9: on_post's dispatch on the throttle result, for a request whose      *)
(* parse gave a non-empty raw_crash. REJECT: 'Discarded=1', queue          *)
(* unchanged. FAKEACCEPT: 'CrashID=<prefix><id>\n', queue unchanged. Any   *)
(* other result: exactly one new report, in STATE_SAVE with errors 0, is   *)
(* appended to the tail of the queue, and the answer is                    *)
(* 'CrashID=<prefix><id>\n'.                                               *)
(***************************************************************************)
C9_Step(r) ==
    (on_post(r, 0, 0) /\ ~is_empty(extract_payload(r).raw_crash)) =>
        IF r.throttle = "REJECT"
        THEN /\ response'.body = <<"Discarded=1">>
             /\ crashmover_queue' = crashmover_queue
             /\ created' = created
        ELSE IF r.throttle = "FAKEACCEPT"
        THEN /\ response'.body = <<"CrashID=", "bp-", "0b9ff107-8672-4aac-8b75-b2bd80160905", "\n">>
             /\ crashmover_queue' = crashmover_queue
             /\ created' = created
        ELSE /\ response'.body = <<"CrashID=", "bp-", "0b9ff107-8672-4aac-8b75-b2bd80160905", "\n">>
             /\ created' = created + 1
             /\ crashmover_queue' = Append(crashmover_queue, created + 1)
             /\ reports'[created + 1].state = STATE_SAVE /\ reports'[created + 1].errors = 0
             /\ \A c \in CrashIds \ {created + 1} : reports'[c] = reports[c]

C9_DispatchOnThrottle == [][\A r \in Requests : C9_Step(r)]_vars

\* A FAKEACCEPT was answered with a crash id while the report accepted before
\* it is alone in the queue.
C9_Witness ==
    /\ request.throttle = "FAKEACCEPT"
    /\ ~is_empty(extract_payload(request).raw_crash)
    /\ response.body = CrashID(create_crash_id(request.throttle))
    /\ created = 1
    /\ crashmover_queue = <<1>>

(***************************************************************************)
(* C10: a malformed request (no content type, a content type other than    *)
(* multipart/form-data, no boundary, no or zero content length, a gzip     *)
(* body that does not decompress, or a JSON part together with a text      *)
(* key/value part, in either order) is answered 'Discarded=1' without the  *)
(* throttler being asked, and the queue is left as it was.                 *)
(***************************************************************************)
C10_IsJsonPart(item) ==
    item.name # "dump_checksums" /\ StartsWith(item.type, "application/json")

C10_IsKvPart(item) ==
    /\ item.name # "dump_checksums"
    /\ ~StartsWith(item.type, "application/json")
    /\ ~StartsWith(item.type, "application/octet-stream")
    /\ ~item.bytes

C10_Malformed(r) ==
    \/ r.content_type = <<>>
    \/ r.content_type[1] # "multipart/form-data"
    \/ ~\E i \in 2..Len(r.content_type) : StartsWith(r.content_type[i], "boundary=")
    \/ r.content_length = 0
    \/ r.content_encoding = "gzip" /\ ~r.gzip_ok
    \/ /\ \E i \in 1..Len(r.parts) : C10_IsJsonPart(r.parts[i])
       /\ \E i \in 1..Len(r.parts) : C10_IsKvPart(r.parts[i])

C10_Step(r) ==
    (on_post(r, 0, 0) /\ C10_Malformed(r)) =>
        /\ response'.body = <<"Discarded=1">>
        /\ ~response'.throttled
        /\ crashmover_queue' = crashmover_queue
        /\ created' = created
        /\ reports' = reports

C10_MalformedIsDiscarded == [][\A r \in Requests : C10_Step(r)]_vars

\* A request with a JSON part and a key/value part was discarded, unthrottled,
\* while an accepted report waits in the queue.
C10_Witness ==
    /\ request \in Requests
    /\ \E i \in 1..Len(request.parts) : C10_IsJsonPart(request.parts[i])
    /\ \E i \in 1..Len(request.parts) : C10_IsKvPart(request.parts[i])
    /\ response.body = Discarded
    /\ ~response.throttled
    /\ crashmover_queue = <<1>>

(***************************************************************************)
(* C11: no error leaves on_post: whatever the request, once on_post has    *)
(* handled it the response has status 200 and a body.                      *)
(***************************************************************************)
C11_AlwaysHTTP200 ==
    request # NoRequest => (response.status = "200 OK" /\ response.body # <<>>)

(***************************************************************************)
(* C12: no exception of save_crash or publish_crash leaves a crashmover.   *)
(* When a backend call for a report raises, the crashmover stays in the    *)
(* pool, back at the top of its loop; the report has one more error and is *)
(* at the tail of the queue, or, at MAX_ATTEMPTS errors, dropped and       *)
(* counted. A crashmover leaves the pool only when it finds the queue      *)
(* empty.                                                                  *)
(***************************************************************************)
C12_Step ==
    /\ \A c \in CrashIds :
          calls'[c].raised = calls[c].raised + 1 =>
              /\ PoolLen(crashmover_pool') = PoolLen(crashmover_pool)
              /\ crashmover_pool'.ready = crashmover_pool.ready + 1
              /\ crashmover_pool'.busy[c] = crashmover_pool.busy[c] - 1
              /\ reports'[c].errors = reports[c].errors + 1
              /\ IF reports'[c].errors < MAX_ATTEMPTS
                 THEN /\ crashmover_queue' = Append(crashmover_queue, c)
                      /\ mymetrics' = mymetrics
                 ELSE /\ crashmover_queue' = crashmover_queue
                      /\ mymetrics'[c].save_dropped + mymetrics'[c].publish_dropped = Drops(c) + 1
    /\ PoolLen(crashmover_pool') < PoolLen(crashmover_pool) =>
          /\ crashmover_queue = <<>>
          /\ crashmover_queue' = <<>>
          /\ crashmover_pool'.busy = crashmover_pool.busy

C12_NoExceptionEscapes == [][C12_Step]_vars

\* One report was dropped, another waits in the queue after a call for it
\* raised, and a crashmover is at the top of its loop, about to take it.
C12_Witness ==
    \E c, d \in Built :
        /\ Drops(c) = 1
        /\ InQueue(d) = 1 /\ reports[d].errors > 0
        /\ crashmover_pool.ready > 0

(***************************************************************************)
(* C13: has_work_to_do is true exactly when the queue is non-empty or a    *)
(* crashmover is active: spawned and not yet finished, be it at the top of *)
(* its loop or inside a backend call.                                      *)
(***************************************************************************)
C13_HasWorkIffQueueOrWorker ==
    has_work_to_do <=>
        \/ Len(crashmover_queue) > 0
        \/ crashmover_pool.ready > 0
        \/ \E c \in CrashIds : crashmover_pool.busy[c] > 0

\* The queue is empty and the one active crashmover has just been spawned or
\* has just come back from a call: there is still work to do.
C13_Witness ==
    /\ crashmover_queue = <<>>
    /\ crashmover_pool.ready = 1
    /\ \A c \in CrashIds : crashmover_pool.busy[c] = 0
    /\ has_work_to_do

(***************************************************************************)
(* C14: at most concurrent_crashmovers crashmovers are active, and so at   *)
(* most concurrent_crashmovers backend calls are in flight, whatever       *)
(* on_post and the heartbeat do.                                           *)
(***************************************************************************)
C14_PoolBounded ==
    /\ crashmover_pool.ready >= 0
    /\ \A c \in CrashIds : crashmover_pool.busy[c] >= 0
    /\ crashmover_pool.ready + Sum(crashmover_pool.busy, CrashIds) <= concurrent_crashmovers
    /\ Cardinality({c \in CrashIds : InCall(c, "save_crash") \/ InCall(c, "publish_crash")})
           <= concurrent_crashmovers

\* The pool is full, a crashmover is inside a backend call, and a report waits
\* in the queue.
C14_Witness ==
    /\ crashmover_pool.ready + Sum(crashmover_pool.busy, CrashIds) = concurrent_crashmovers
    /\ \E c \in CrashIds : crashmover_pool.busy[c] > 0
    /\ crashmover_queue # <<>>

(***************************************************************************)
(* C15: the queue is FIFO. Every step that changes it either takes its     *)
(* head, for which a backend call then starts, or appends one report to    *)
(* its tail (a new one from on_post, one whose call raised, one saved and  *)
(* now to be published). So a report put back is behind every report that  *)
(* was queued at that moment, and is taken again only after them.          *)
(***************************************************************************)
C15_Step ==
    crashmover_queue' # crashmover_queue =>
        \/ /\ crashmover_queue # <<>>
           /\ crashmover_queue' = Tail(crashmover_queue)
           /\ crashmover_pool'.busy[Head(crashmover_queue)] =
                  crashmover_pool.busy[Head(crashmover_queue)] + 1
        \/ \E c \in CrashIds :
              /\ crashmover_queue' = Append(crashmover_queue, c)
              /\ \/ c = created' /\ created' = created + 1
                 \/ crashmover_pool'.busy[c] = crashmover_pool.busy[c] - 1

C15_QueueIsFIFO == [][C15_Step]_vars

\* A report whose call raised waits behind the report that was queued when it
\* was put back.
C15_Witness ==
    /\ Len(crashmover_queue) = 2
    /\ reports[crashmover_queue[2]].errors > 0
    /\ reports[crashmover_queue[1]].errors = 0
    /\ reports[crashmover_queue[1]].state = STATE_SAVE

(***************************************************************************)
(* C16: every crash report that was ever put in the queue has its state in *)
(* {STATE_SAVE, STATE_PUBLISH}, a non-empty crash_id that validate_crash_id *)
(* accepts, and raw_crash['uuid'] equal to that crash_id; and no step      *)
(* changes the crash_id of a report once it is enqueued.                   *)
(***************************************************************************)
C16_State(c) ==
    /\ reports[c].state \in {STATE_SAVE, STATE_PUBLISH}
    /\ reports[c].crash_id # ""
    /\ validate_crash_id(reports[c].crash_id)
    /\ reports[c].raw_crash_uuid = reports[c].crash_id

C16_QueuedReportsWellFormed ==
    /\ [](\A c \in Built : C16_State(c))
    /\ [][\A c \in Built : reports'[c].crash_id = reports[c].crash_id]_vars

\* A report that came with its own valid uuid and a report with a new crash id
\* have both been through the queue; the second is published.
C16_Witness ==
    \E c, d \in Built :
        /\ reports[c].crash_id = UuidPart.value
        /\ reports[d].crash_id = create_crash_id("ACCEPT")
        /\ reports[d].state = STATE_PUBLISH
        /\ calls[d].published = 1

(***************************************************************************)
(* C17: a uuid the client gives is reused verbatim as the crash id if it   *)
(* is valid; if it is absent or not valid, a new crash id is minted and    *)
(* takes its place. Stated for app.py's on_post.                           *)
(***************************************************************************)
C17_Supplied(r) ==
    IF \E i \in 1..Len(r.parts) : r.parts[i].name = "uuid"
    THEN r.parts[CHOOSE i \in 1..Len(r.parts) : r.parts[i].name = "uuid"].value
    ELSE ""

C17_UuidReusedIfValid ==
    app.pc \in {"save_raw_crash", "done", "save_raised"} =>
        /\ app.crash_id = IF validate_crash_id(C17_Supplied(app.request))
                          THEN C17_Supplied(app.request)
                          ELSE create_new_ooid
        /\ app.raw_crash["uuid"] = app.crash_id
        /\ app.pc = "done" => app.response.body = CrashID(app.crash_id)

(***************************************************************************)
(* C17, for the handler of breakpad_resource.py: on every on_post step     *)
(* that answers with a crash id, the id is the uuid given if               *)
(* validate_crash_id accepts it and a new one if not, in the response and  *)
(* in the report enqueued.                                                 *)
(***************************************************************************)
C17_QueueHandlerStep(r) ==
    (on_post(r, 0, 0) /\ ~extract_payload_raises(r) /\ ~is_empty(extract_payload(r).raw_crash)
        /\ r.throttle # "REJECT") =>
        LET crash_id == IF validate_crash_id(C17_Supplied(r)) THEN C17_Supplied(r)
                        ELSE create_crash_id(r.throttle)
        IN  /\ response'.body = <<"CrashID=", "bp-", crash_id, "\n">>
            /\ created' # created =>
                  /\ reports'[created'].crash_id = crash_id
                  /\ reports'[created'].raw_crash_uuid = crash_id

C17_QueueHandlerReusesValidUuid == [][\A r \in SubmitRequests : C17_QueueHandlerStep(r)]_vars

(***************************************************************************)
(* C18: whenever has_work_to_do is false, every crash report that was      *)
(* appended to the queue has either been published (after its save) or     *)
(* been dropped after MAX_ATTEMPTS calls raised in one state, and nothing  *)
(* else: no report is lost.                                                *)
(***************************************************************************)
C18_DrainSafety ==
    ~has_work_to_do =>
        \A c \in Built :
            \/ /\ calls[c].published = 1 /\ calls[c].saved = 1
               /\ Drops(c) = 0
            \/ /\ Drops(c) = 1 /\ calls[c].published = 0
               /\ reports[c].errors = MAX_ATTEMPTS
               /\ calls[c].raised = MAX_ATTEMPTS
               /\ (mymetrics[c].save_dropped = 1) = (reports[c].state = STATE_SAVE)

\* Nothing is left to do: one report was saved and then dropped after
\* MAX_ATTEMPTS publish calls raised, the other was published.
C18_Witness ==
    /\ ~has_work_to_do
    /\ \E c, d \in Built :
        /\ mymetrics[c].publish_dropped = 1 /\ calls[c].saved = 1
        /\ calls[d].published = 1

(***************************************************************************)
(* C19: between the steps of on_post, of the heartbeat and of the          *)
(* crashmovers, a non-empty queue comes with at least one active           *)
(* crashmover: work is never left in the queue with an idle pool.          *)
(***************************************************************************)
C19_NoStrandedWork ==
    crashmover_queue # <<>> =>
        crashmover_pool.ready + Sum(crashmover_pool.busy, CrashIds) >= 1

\* Every report is built, one waits in the queue after a call for it raised,
\* and the only crashmover left is the one that will take it.
C19_Witness ==
    /\ created = MaxCrashes
    /\ crashmover_queue # <<>>
    /\ reports[Head(crashmover_queue)].errors > 0
    /\ crashmover_pool.ready = 1
    /\ Sum(crashmover_pool.busy, CrashIds) = 0

(***************************************************************************)
(* C20: every crash report appended to the queue carries at least one      *)
(* dump: on every step of on_post that builds a report, the dumps parsed   *)
(* from the request, which the report is built with, are not empty.        *)
(***************************************************************************)
C20_EnqueuedHasDump ==
    [][created' # created => DOMAIN extract_payload(request').dumps # {}]_vars

(***************************************************************************)
(* C21: a request that extract_payload rejects as malformed increments     *)
(* exactly one malformed counter, tagged with the reason of the first      *)
(* check that fails, the checks taken in the order no_content_type,        *)
(* wrong_content_type / no_boundary, no_content_length, bad_gzip,          *)
(* has_json_and_kv; a request that passes them all increments none.        *)
(***************************************************************************)
\* The body the parser is to read: the octets the Content-Length covers, and
\* what they are the compression of when the request says gzip.
C21_Sent(http) == SubSeq(http.stream, 1, Min(http.content_length, Len(http.stream)))

C21_BadGzip(http) ==
    /\ http.content_encoding = "gzip"
    /\ \A body \in Bodies : gzip(body) # C21_Sent(http)

C21_Body(http) ==
    IF http.content_encoding = "gzip"
    THEN CHOOSE body \in Bodies : gzip(body) = C21_Sent(http)
    ELSE C21_Sent(http)

C21_Fails(http, check) ==
    LET ct == http.content_type
    IN  CASE check = "reason:no_content_type" -> ct = <<>>
          [] check = "reason:wrong_content_type" ->
                 ct # <<>> /\ ct[1] # "multipart/form-data"
          [] check = "reason:no_boundary" ->
                 /\ ct # <<>> /\ ct[1] = "multipart/form-data"
                 /\ ~(Len(ct) = 2 /\ StartsWith(ct[2], "boundary="))
          [] check = "reason:no_content_length" -> http.content_length = 0
          [] check = "reason:bad_gzip" -> C21_BadGzip(http)
          [] check = "reason:has_json_and_kv" ->
                 /\ ~C21_BadGzip(http)
                 /\ \E i \in 1..Len(C21_Body(http)) : C10_IsJsonPart(C21_Body(http)[i])
                 /\ \E i \in 1..Len(C21_Body(http)) : C10_IsKvPart(C21_Body(http)[i])

C21_Checks ==
    <<"reason:no_content_type", "reason:wrong_content_type", "reason:no_boundary",
      "reason:no_content_length", "reason:bad_gzip", "reason:has_json_and_kv">>

\* The checks that http fails, in the order of C21_Checks.
C21_Failing(http) == SelectSeq(C21_Checks, LAMBDA check : C21_Fails(http, check))

C21_OneMalformedCounter ==
    parser.pc = "returned" =>
        parser.payload.malformed =
            IF C21_Failing(parser.http) = <<>> THEN <<>>
            ELSE <<Head(C21_Failing(parser.http))>>

\* The parser returned from a request with no boundary, no content length and
\* a body that is no gzip stream, and counted the first of the three only.
C21_Witness ==
    /\ parser.pc = "returned"
    /\ Len(C21_Failing(parser.http)) >= 3
    /\ C21_Failing(parser.http)[1] = "reason:no_boundary"
    /\ parser.payload.malformed = <<"reason:no_boundary">>

(***************************************************************************)
(* C22: a request that carries Content-Encoding: gzip increments the       *)
(* gzipped_crash counter exactly once, and a request without that encoding *)
(* never increments it: when extract_payload has returned, the counter is  *)
(* 1 for a gzip request and 0 for any other.                               *)
(***************************************************************************)
C22_GzippedCrashCounted ==
    parser.pc = "returned" =>
        parser.payload.gzipped = IF parser.http.content_encoding = "gzip" THEN 1 ELSE 0

(***************************************************************************)
(* C23: on_post discards every request whose parsed annotations are empty, *)
(* a well-formed multipart request with dumps and no annotation field      *)
(* included: it answers 'Discarded=1', does not count an incoming crash,   *)
(* does not run the throttler and enqueues nothing; and when the request   *)
(* is well-formed no malformed counter is incremented.                     *)
(***************************************************************************)
C23_Step(r) ==
    (on_post(r, 0, 0) /\ ~extract_payload_raises(r)
        /\ DOMAIN extract_payload(r).raw_crash = {}) =>
        /\ response'.status = "200 OK"
        /\ response'.body = <<"Discarded=1">>
        /\ response'.incoming_crash = 0
        /\ ~response'.throttled
        /\ crashmover_queue' = crashmover_queue
        /\ created' = created
        /\ reports' = reports
        /\ crashmover_pool' = crashmover_pool
        /\ ~C10_Malformed(r) => response'.malformed = <<>>

C23_EmptyAnnotationsDiscarded == [][\A r \in Requests : C23_Step(r)]_vars

\* A well-formed request that carries a minidump and no annotation was
\* discarded with no counter incremented, while an accepted report waits in the
\* queue.
C23_Witness ==
    /\ request \in Requests
    /\ ~C10_Malformed(request)
    /\ request.parts = <<DumpPart>>
    /\ response.body = Discarded
    /\ response.incoming_crash = 0
    /\ response.malformed = <<>>
    /\ ~response.throttled
    /\ crashmover_queue = <<1>>

(***************************************************************************)
(* C24: for every report on_post has built, raw_crash['timestamp'] and     *)
(* raw_crash['submitted_timestamp'] are one reading of the clock, the      *)
(* first in seconds since the epoch and the second as an ISO-8601 UTC      *)
(* timestamp, however long the parse of the request takes.                 *)
(***************************************************************************)
\* The seconds since the epoch that the timestamp 1970-01-01Thh:mm:ss+00:00
\* denotes, for a timestamp of the first ten seconds.
C24_Seconds(iso) ==
    CHOOSE t \in 0..9 : iso = "1970-01-01T00:00:0" \o Digits[t + 1] \o "+00:00"

C24_IsUTCTimestamp(iso) ==
    /\ Len(iso) = 25
    /\ SubSeq(iso, 1, 18) = "1970-01-01T00:00:0"
    /\ \E t \in 0..9 : SubSeq(iso, 19, 19) = Digits[t + 1]
    /\ SubSeq(iso, 20, 25) = "+00:00"

C24_OneClockReading ==
    \A c \in 1..created :
        /\ C24_IsUTCTimestamp(reports[c].raw_crash_submitted_timestamp)
        /\ C24_Seconds(reports[c].raw_crash_submitted_timestamp) = reports[c].raw_crash_timestamp

(***************************************************************************)
(* C25: gzip round trip. For a request with a well-formed multipart body,  *)
(* extract_payload returns the same (raw_crash, dumps) for the body sent   *)
(* as it is and for the body sent gzip-compressed, with Content-Encoding:  *)
(* gzip and the Content-Length of the compressed octets; and it raises     *)
(* for the one when it raises for the other.                               *)
(***************************************************************************)
\* The request that carries the body of http compressed.
C25_Gzipped(http) ==
    [http EXCEPT !.content_encoding = "gzip",
                 !.stream = gzip(http.stream),
                 !.content_length = Len(gzip(http.stream))]

C25_WellFormed(http) ==
    /\ http.content_encoding = "identity"
    /\ http.content_type = <<"multipart/form-data", "boundary=xyz">>
    /\ http.stream # <<>>
    /\ http.content_length = Len(http.stream)

C25_GzipRoundTrip ==
    (parser.pc \in {"returned", "raised"} /\ C25_WellFormed(parser.http)) =>
        LET gzipped == falcon_req(C25_Gzipped(parser.http))
        IN  /\ extract_payload_raises(gzipped) <=> parser.pc = "raised"
            /\ parser.pc = "returned" =>
                  /\ extract_payload(gzipped).raw_crash = parser.payload.raw_crash
                  /\ extract_payload(gzipped).dumps = parser.payload.dumps

\* The parser returned annotations and dumps from a body whose compression is
\* shorter than the body and is not the body.
C25_Witness ==
    /\ parser.pc = "returned"
    /\ C25_WellFormed(parser.http)
    /\ C25_Gzipped(parser.http).content_length < parser.http.content_length
    /\ C25_Gzipped(parser.http).stream # parser.http.stream
    /\ parser.payload.raw_crash = [k \in {"ProductName"} |-> "Firefox"]
    /\ parser.payload.dumps = [k \in {"upload_file_minidump"} |-> "abcd1234"]
    /\ extract_payload(falcon_req(C25_Gzipped(parser.http))).gzipped = 1

====
